---- MODULE Spec2Model ----
(***************************************************************************)
(* Behaviour-tree editing engine of social_norms_trees: the tree model,    *)
(* the four atomic mutations of atomic_mutations.py (remove, insert, move, *)
(* exchange), the addressing functions that feed them and the main loop    *)
(* that prompts for their arguments.                                       *)
(*                                                                         *)
(* Nodes are numbered objects.  A node's fields are `children` (a Python   *)
(* list, modelled as a sequence) and `parent` (an object reference or      *)
(* None).  Python list indices are 0-based; the model keeps the 0-based    *)
(* index of the source in every argument and converts where it touches a   *)
(* TLA+ sequence.                                                          *)
(*                                                                         *)
(* serialize_tree.py works on values: a document is a nested dictionary    *)
(* and the tree it builds or reads is taken by value, so both are modelled *)
(* as nested records; a dictionary key or an attribute that may be absent  *)
(* is a record field that may be absent.  `ser` holds the inputs and the   *)
(* results of a run of serialize_tree / deserialize_tree.                  *)
(***************************************************************************)
EXTENDS Integers, Sequences, FiniteSets, TLC

VARIABLES children, parent, op, pre, ser, protocol

vars == <<children, parent, op, pre, ser, protocol>>

----------------------------------------------------------------------------
(* The objects of a session: the tree built by load_experiment and the     *)
(* library list.                                                           *)

None == 0

\* Sequence0
Root == 1

\* Sequence0, Sequence1 and the Selector named "Sequence2"
Composites == {1, 2, 4}

\* Dummy1 (under Sequence1) and the library's Success and Failure
Leaves == {3, 5, 6}

Nodes == Composites \cup Leaves

\* library = [Success(), Failure()]
Library == <<5, 6>>

IsComposite(n) == n \in Composites

\* load_experiment's tree with fewer leaves:
\* Sequence0[Sequence1[Dummy1], Sequence2[]]
InitChildren ==
  [n \in Nodes |-> CASE n = 1 -> <<2, 4>>
                     [] n = 2 -> <<3>>
                     [] OTHER -> <<>>]

InitParent ==
  [n \in Nodes |-> CASE n \in {2, 4} -> 1
                     [] n = 3 -> 2
                     [] OTHER -> None]

----------------------------------------------------------------------------
(* Bounds of the model.                                                    *)

\* an insert is offered only while the child lists hold fewer entries
MaxSlots == 5

\* a session of the main loop makes at most this many calls
MaxCalls == 3

\* a direct caller makes at most this many calls
MaxApiCalls == 3

\* a direct caller passes indices that miss the child list by at most this
MaxOvershoot == 1

\* a document node or a tree node given to serialize_tree.py has at most
\* this many children
MaxWidth == 2

\* a behaviour list given to BehaviorLibrary has at most this many entries
MaxEntries == 2

\* a session whose protocol is kept makes at most this many calls
MaxLogged == 2

\* a caller of behaviour_tree_library makes at most this many calls
MaxSeqCalls == 3

\* the list of child ids given to build_tree has at most this many entries
MaxBuilt == 2

----------------------------------------------------------------------------
(* Python list primitives.                                                 *)

RECURSIVE Count(_, _)
Count(x, seq) ==
  IF seq = <<>> THEN 0
  ELSE (IF Head(seq) = x THEN 1 ELSE 0) + Count(x, Tail(seq))

InList(x, seq) == \E k \in 1..Len(seq) : seq[k] = x

\* list.index(x): 0-based position of the first occurrence
ListIndex(seq, x) == (CHOOSE k \in 1..Len(seq) :
                        seq[k] = x /\ \A j \in 1..(k-1) : seq[j] # x) - 1

\* list.remove(x): drops the first occurrence
ListRemove(seq, x) ==
  LET k == ListIndex(seq, x) + 1
  IN  SubSeq(seq, 1, k-1) \o SubSeq(seq, k+1, Len(seq))

\* list.insert(i, x): a negative index counts from the end, and an index
\* outside the list is clamped to its nearest end
ListInsert_OneLater(seq, i, x) ==
  LET n == Len(seq)
      j == IF i + 1 > n THEN n ELSE i + 1
  IN  SubSeq(seq, 1, j) \o <<x>> \o SubSeq(seq, j+1, n)

ListInsert(seq, i, x) ==
  LET n == Len(seq)
      j == IF i < 0 THEN (IF i + n < 0 THEN 0 ELSE i + n)
           ELSE (IF i > n THEN n ELSE i)
  IN  SubSeq(seq, 1, j) \o <<x>> \o SubSeq(seq, j+1, n)

----------------------------------------------------------------------------
(* A heap is the record [children, parent, err, ret]: the fields of every   *)
(* node, the exception, if any, that the running call has raised, and the  *)
(* value the call returns.                                                 *)

Heap(c, p) == [children |-> c, parent |-> p, err |-> "none", ret |-> None]

Raise(s, e) == [s EXCEPT !.err = e, !.ret = None]

\* a remove_child that forgets to clear the child's parent
RemoveChild_KeepsParent(s, p, child) ==
  IF ~ InList(child, s.children[p]) THEN Raise(s, "ValueError")
  ELSE [s EXCEPT !.children[p] = ListRemove(@, child)]

\* py_trees Composite.remove_child(child): children.index(child) raises
\* ValueError when the child is absent; then children.remove(child) and
\* child.parent = None
RemoveChild(s, p, child) ==
  IF ~ InList(child, s.children[p]) THEN Raise(s, "ValueError")
  ELSE [s EXCEPT !.children[p] = ListRemove(@, child),
                 !.parent[child] = None]

\* an insert_child that appends whatever the index
InsertChild_Append(s, p, child, index) ==
  [s EXCEPT !.children[p] = Append(@, child),
            !.parent[child] = p]

\* py_trees Composite.insert_child(child, index):
\* children.insert(index, child); child.parent = self
InsertChild(s, p, child, index) ==
  [s EXCEPT !.children[p] = ListInsert(@, index, child),
            !.parent[child] = p]

\* a remove that returns a parentless node instead of raising
remove_RootSilently(s, node) ==
  IF s.parent[node] = None THEN [s EXCEPT !.ret = node]
  ELSE IF IsComposite(s.parent[node])
       THEN LET r == RemoveChild(s, s.parent[node], node)
            IN  IF r.err # "none" THEN r ELSE [r EXCEPT !.ret = node]
       ELSE Raise(s, "NotImplementedError")

\* atomic_mutations.remove
remove(s, node) ==
  IF s.parent[node] = None THEN Raise(s, "ValueError")
  ELSE IF IsComposite(s.parent[node])
       THEN LET r == RemoveChild(s, s.parent[node], node)
            IN  IF r.err # "none" THEN r ELSE [r EXCEPT !.ret = node]
       ELSE Raise(s, "NotImplementedError")

\* atomic_mutations.insert: a node that is not a Composite has no
\* insert_child attribute
insert(s, node, where) ==
  IF ~ IsComposite(where[1]) THEN Raise(s, "AttributeError")
  ELSE [InsertChild(s, where[1], node, where[2]) EXCEPT !.ret = None]

\* atomic_mutations.move: insert(remove(node), (parent, index))
move_IndexBeforeDetach(s, node, where) ==
  LET r == remove(s, node)
      p == s.parent[node]
      shifted == IF where[1] = p /\ where[2] > ListIndex(s.children[p], node)
                 THEN <<where[1], where[2] - 1>>
                 ELSE where
  IN  IF r.err # "none" THEN r ELSE insert(r, node, shifted)

move(s, node, where) ==
  LET r == remove(s, node)
  IN  IF r.err # "none" THEN r ELSE insert(r, node, where)

\* an exchange whose second move reuses node1's index
exchange_SameIndex(s, node0, node1) ==
  IF s.parent[node0] = None \/ s.parent[node1] = None
  THEN Raise(s, "AttributeError")
  ELSE LET node0_parent == s.parent[node0]
           node1_parent == s.parent[node1]
           node1_index  == ListIndex(s.children[node1_parent], node1)
           m == move(s, node0, <<node1_parent, node1_index>>)
       IN  IF m.err # "none" THEN m
           ELSE move(m, node1, <<node0_parent, node1_index>>)

\* an exchange that reads node0's position again after it has moved node0
exchange_NoCapture(s, node0, node1) ==
  IF s.parent[node0] = None \/ s.parent[node1] = None
  THEN Raise(s, "AttributeError")
  ELSE LET node1_parent == s.parent[node1]
           node1_index  == ListIndex(s.children[node1_parent], node1)
           m == move(s, node0, <<node1_parent, node1_index>>)
       IN  IF m.err # "none" THEN m
           ELSE move(m, node1,
                     <<m.parent[node0],
                       ListIndex(m.children[m.parent[node0]], node0)>>)

\* an exchange that looks node1's position up only after it has detached
\* node0
exchange_LateLookup(s, node0, node1) ==
  IF s.parent[node0] = None THEN Raise(s, "AttributeError")
  ELSE LET node0_parent == s.parent[node0]
           node0_index  == ListIndex(s.children[node0_parent], node0)
           r == remove(s, node0)
       IN  IF r.err # "none" THEN r
           ELSE IF r.parent[node1] = None THEN Raise(r, "AttributeError")
           ELSE LET node1_parent == r.parent[node1]
                    node1_index  == ListIndex(r.children[node1_parent],
                                              node1)
                    m == insert(r, node0, <<node1_parent, node1_index>>)
                IN  IF m.err # "none" THEN m
                    ELSE move(m, node1, <<node0_parent, node0_index>>)

\* atomic_mutations.exchange: both (parent, index) pairs are read before
\* either move; node.parent.children of a parentless node raises
\* AttributeError
exchange(s, node0, node1) ==
  IF s.parent[node0] = None THEN Raise(s, "AttributeError")
  ELSE IF ~ InList(node0, s.children[s.parent[node0]])
       THEN Raise(s, "ValueError")
  ELSE IF s.parent[node1] = None THEN Raise(s, "AttributeError")
  ELSE IF ~ InList(node1, s.children[s.parent[node1]])
       THEN Raise(s, "ValueError")
  ELSE LET node0_parent == s.parent[node0]
           node0_index  == ListIndex(s.children[node0_parent], node0)
           node1_parent == s.parent[node1]
           node1_index  == ListIndex(s.children[node1_parent], node1)
           m == move(s, node0, <<node1_parent, node1_index>>)
       IN  IF m.err # "none" THEN m
           ELSE move(m, node1, <<node0_parent, node0_index>>)

----------------------------------------------------------------------------
(* Node and position selectors.                                            *)

\* iterate_nodes: depth-first pre-order
RECURSIVE iterate_nodes(_, _)
iterate_nodes(s, tree) ==
  LET ch == s.children[tree]
      RECURSIVE Kids(_)
      Kids(k) == IF k > Len(ch) THEN <<>>
                 ELSE iterate_nodes(s, ch[k]) \o Kids(k + 1)
  IN  <<tree>> \o Kids(1)

enumerate_nodes_Backwards(s, tree) ==
  LET ns == iterate_nodes(s, tree)
  IN  [k \in 1..Len(ns) |-> <<k - 1, ns[Len(ns) + 1 - k]>>]

enumerate_nodes_FromOne(s, tree) ==
  LET ns == iterate_nodes(s, tree)
  IN  [k \in 1..Len(ns) |-> <<k, ns[k]>>]

\* enumerate_nodes: the pairs (i, node) of enumerate(), counted from 0
enumerate_nodes(s, tree) ==
  LET ns == iterate_nodes(s, tree)
  IN  [k \in 1..Len(ns) |-> <<k - 1, ns[k]>>]

\* get_node_mapping: the dictionary built from the pairs, a later pair
\* replacing an earlier one with the same label; the label str(i) is
\* written i
get_node_mapping(s, tree) ==
  LET e == enumerate_nodes(s, tree)
      last(l) == CHOOSE k \in DOMAIN e :
                   /\ e[k][1] = l
                   /\ \A j \in DOMAIN e : e[j][1] = l => j <= k
  IN  [l \in {e[k][1] : k \in DOMAIN e} |-> e[last(l)][2]]

\* the values a prompt on the mapping can return
Range(f) == {f[x] : x \in DOMAIN f}

\* label_tree_lines: the display labels zipped with the lines of the
\* rendering, one line per node in pre-order and an empty last line (None)
label_tree_lines(s, tree, labels) ==
  LET ns == iterate_nodes(s, tree)
      lines == Append(ns, None)
      len == IF Len(labels) < Len(lines) THEN Len(labels) ELSE Len(lines)
  IN  [k \in 1..len |-> <<labels[k], lines[k]>>]

\* skip_label "_", the display label of a line that cannot be chosen
skip_label == 0 - 1

get_composite_mapping_CountComposites(s, tree) ==
  LET e == enumerate_nodes(s, tree)
      allowed == SelectSeq(e, LAMBDA pair : IsComposite(pair[2]))
  IN  [mapping |-> [l \in 0..(Len(allowed) - 1) |-> allowed[l + 1][2]],
       labels |-> [k \in DOMAIN allowed |-> k - 1],
       representation |->
         label_tree_lines(s, tree,
           [k \in DOMAIN e |->
              IF IsComposite(e[k][2])
              THEN Cardinality({j \in 1..(k - 1) : IsComposite(e[j][2])})
              ELSE skip_label])]

\* get_composite_mapping: mapping and allowed labels hold the pairs whose
\* node is a composite; the representation is the rendering's lines, one
\* per node in pre-order, each with its display label (label_tree_lines)
get_composite_mapping(s, tree) ==
  LET e == enumerate_nodes(s, tree)
      allowed == SelectSeq(e, LAMBDA pair : IsComposite(pair[2]))
      last(l) == CHOOSE k \in DOMAIN allowed :
                   /\ allowed[k][1] = l
                   /\ \A j \in DOMAIN allowed : allowed[j][1] = l => j <= k
  IN  [mapping |-> [l \in {allowed[k][1] : k \in DOMAIN allowed}
                      |-> allowed[last(l)][2]],
       labels |-> [k \in DOMAIN allowed |-> allowed[k][1]],
       representation |->
         label_tree_lines(s, tree,
           [k \in DOMAIN e |->
              IF IsComposite(e[k][2]) THEN e[k][1] ELSE skip_label])]

\* get_library_mapping: label i is library[i]
get_library_mapping(library) == library

\* TreeInsertionState()
TreeInsertionState ==
  [index_mapping |-> <<>>, parent_child_mapping |-> <<>>,
   tree_representation |-> <<>>]

\* _append_line: a line of the rendering that shows a node
append_line(state, node, level) ==
  [state EXCEPT !.tree_representation =
     Append(@, [point |-> FALSE, what |-> node, level |-> level])]

create_insertion_point_OncePerParent(state, parent_node, level) ==
  LET im == state.index_mapping
      pcm == state.parent_child_mapping
      insertion_index == Cardinality(DOMAIN im)
  IN  IF parent_node \in DOMAIN pcm THEN state
      ELSE
      [index_mapping |->
         [l \in DOMAIN im \cup {insertion_index} |->
            IF l = insertion_index THEN parent_node ELSE im[l]],
       parent_child_mapping |->
         [p \in DOMAIN pcm \cup {parent_node} |->
            IF p = parent_node THEN <<insertion_index>> ELSE pcm[p]],
       tree_representation |->
         Append(state.tree_representation,
                [point |-> TRUE, what |-> insertion_index, level |-> level])]

create_insertion_point_LabelPerParent(state, parent_node, level) ==
  LET im == state.index_mapping
      pcm == state.parent_child_mapping
      insertion_index == IF parent_node \in DOMAIN pcm
                         THEN Len(pcm[parent_node]) ELSE 0
  IN  [index_mapping |->
         [l \in DOMAIN im \cup {insertion_index} |->
            IF l = insertion_index THEN parent_node ELSE im[l]],
       parent_child_mapping |->
         [p \in DOMAIN pcm \cup {parent_node} |->
            IF p # parent_node THEN pcm[p]
            ELSE IF p \in DOMAIN pcm THEN Append(pcm[p], insertion_index)
            ELSE <<insertion_index>>],
       tree_representation |->
         Append(state.tree_representation,
                [point |-> TRUE, what |-> insertion_index, level |-> level])]

\* _create_insertion_point: the next label is the size of index_mapping
\* (str(i) is written i); the label is rendered, mapped to its owner and
\* appended to the owner's list of labels
create_insertion_point(state, parent_node, level) ==
  LET im == state.index_mapping
      pcm == state.parent_child_mapping
      insertion_index == Cardinality(DOMAIN im)
  IN  [index_mapping |->
         [l \in DOMAIN im \cup {insertion_index} |->
            IF l = insertion_index THEN parent_node ELSE im[l]],
       parent_child_mapping |->
         [p \in DOMAIN pcm \cup {parent_node} |->
            IF p # parent_node THEN pcm[p]
            ELSE IF p \in DOMAIN pcm THEN Append(pcm[p], insertion_index)
            ELSE <<insertion_index>>],
       tree_representation |->
         Append(state.tree_representation,
                [point |-> TRUE, what |-> insertion_index, level |-> level])]

\* _build_tree_with_insertion_points
RECURSIVE build_tree_with_insertion_points(_, _, _, _)
build_tree_with_insertion_points(s, node, state, level) ==
  LET ch == s.children[node]
      before == IF level # 0
                THEN create_insertion_point(state, s.parent[node], level)
                ELSE state
      shown == append_line(before, node, level)
      empty == IF ch = <<>>
               THEN create_insertion_point(shown, node, level + 1)
               ELSE shown
      after(st, child) == IF child = ch[Len(ch)]
                          THEN create_insertion_point(st, node, level + 1)
                          ELSE st
      RECURSIVE Kids(_, _)
      Kids(k, st) ==
        IF k > Len(ch) THEN st
        ELSE LET child == ch[k]
             IN  IF IsComposite(child)
                 THEN Kids(k + 1,
                        after(build_tree_with_insertion_points(
                                s, child, st, level + 1), child))
                 ELSE Kids(k + 1,
                        after(append_line(
                                create_insertion_point(st, node, level + 1),
                                child, level + 1), child))
  IN  Kids(1, empty)

\* the keys of index_mapping in insertion order: the labels of the rendered
\* insertion points, each at its first occurrence
index_mapping_keys(state) ==
  LET pts == SelectSeq(state.tree_representation, LAMBDA line : line.point)
      first == {k \in DOMAIN pts :
                  \A j \in 1..(k - 1) : pts[j].what # pts[k].what}
  IN  [i \in 1..Cardinality(first) |->
         pts[CHOOSE k \in first :
               Cardinality({j \in first : j < k}) = i - 1].what]

get_insert_mapping_LabelAsIndex(s, tree) ==
  LET state == build_tree_with_insertion_points(s, tree, TreeInsertionState, 0)
      im == state.index_mapping
  IN  [mapping |-> [label \in DOMAIN im |-> <<im[label], label>>],
       labels |-> index_mapping_keys(state),
       representation |-> state.tree_representation]

\* get_insert_mapping: label -> (owner, position of the label in the
\* owner's list of labels); the labels are the keys in insertion order
get_insert_mapping(s, tree) ==
  LET state == build_tree_with_insertion_points(s, tree, TreeInsertionState, 0)
      im == state.index_mapping
      pcm == state.parent_child_mapping
  IN  [mapping |-> [label \in DOMAIN im |->
                      <<im[label], ListIndex(pcm[im[label]], label)>>],
       labels |-> index_mapping_keys(state),
       representation |-> state.tree_representation]

get_child_index_mapping_NoPostLabel(s, tree) ==
  LET ns == iterate_nodes(s, tree)
      ch == s.children[tree]
      shown == [k \in DOMAIN ns |->
                  IF InList(ns[k], ch) THEN ListIndex(ch, ns[k])
                  ELSE skip_label]
      allowed == SelectSeq(shown, LAMBDA l : l # skip_label)
      post_list_index == Len(ch)
      display_labels == shown
      allowed_labels == allowed
  IN  [mapping |-> [l \in Range(allowed_labels) |-> l],
       labels |-> allowed_labels,
       representation |-> label_tree_lines(s, tree, display_labels)]

\* get_child_index_mapping: a node of the traversal that is among the
\* children of `tree` is labelled with its index there, every other node
\* with the skip label; the label after all the children is added last
get_child_index_mapping(s, tree) ==
  LET ns == iterate_nodes(s, tree)
      ch == s.children[tree]
      shown == [k \in DOMAIN ns |->
                  IF InList(ns[k], ch) THEN ListIndex(ch, ns[k])
                  ELSE skip_label]
      allowed == SelectSeq(shown, LAMBDA l : l # skip_label)
      post_list_index == Len(ch)
      display_labels == Append(shown, post_list_index)
      allowed_labels == Append(allowed, post_list_index)
  IN  [mapping |-> [l \in Range(allowed_labels) |-> l],
       labels |-> allowed_labels,
       representation |-> label_tree_lines(s, tree, display_labels)]

\* mutate_tree.format_children_with_indices: the display labels, counted
\* with a counter that advances at every direct child
format_children_with_indices(s, composite) ==
  LET ns == iterate_nodes(s, composite)
      ch == s.children[composite]
      seen(k) == Cardinality({j \in 1..k : InList(ns[j], ch)})
      index_strings == [k \in DOMAIN ns |->
                          IF InList(ns[k], ch) THEN seen(k - 1)
                          ELSE skip_label]
  IN  label_tree_lines(s, composite, Append(index_strings, seen(Len(ns))))

\* mutate_tree.format_tree_with_indices: the labelled rendering and the
\* labels a prompt accepts, index_strings[1:]
format_tree_with_indices(s, tree, show_root) ==
  LET e == enumerate_nodes(s, tree)
      index_strings == [k \in DOMAIN e |->
                          IF e[k][1] = 0 /\ ~ show_root THEN skip_label
                          ELSE e[k][1]]
  IN  [output |-> label_tree_lines(s, tree, index_strings),
       options |-> Tail(index_strings)]

\* the set of nodes reached by following children
ChildSet(s, n) == {s.children[n][k] : k \in 1..Len(s.children[n])}

RECURSIVE Closure(_, _)
Closure(s, S) ==
  LET T == S \cup UNION {ChildSet(s, n) : n \in S}
  IN  IF T = S THEN S ELSE Closure(s, T)

TreeNodes(s) == Closure(s, {Root})

Descendants(s, n) == Closure(s, ChildSet(s, n))

TotalSlots(c) ==
  LET RECURSIVE Sum(_)
      Sum(S) == IF S = {} THEN 0
                ELSE LET n == CHOOSE x \in S : TRUE
                     IN  Len(c[n]) + Sum(S \ {n})
  IN  Sum(Nodes)

----------------------------------------------------------------------------
(* serialize_tree.py: trees, documents and the behaviour library.          *)

\* the dictionary of one node: type and name, display_name and id_ when the
\* node has these attributes, children when it has any
serialize_node_AlwaysChildren(tree, kids) ==
  LET data0 == [type |-> tree.cls, name |-> tree.name]
      data1 == IF "display_name" \in DOMAIN tree
               THEN data0 @@ [display_name |-> tree.display_name]
               ELSE data0
      data2 == IF "id_" \in DOMAIN tree
               THEN data1 @@ [id_ |-> tree.id_]
               ELSE data1
  IN  data2 @@ [children |-> kids]

serialize_node(tree, kids) ==
  LET data0 == [type |-> tree.cls, name |-> tree.name]
      data1 == IF "display_name" \in DOMAIN tree
               THEN data0 @@ [display_name |-> tree.display_name]
               ELSE data0
      data2 == IF "id_" \in DOMAIN tree
               THEN data1 @@ [id_ |-> tree.id_]
               ELSE data1
  IN  IF kids # <<>> THEN data2 @@ [children |-> kids] ELSE data2

RECURSIVE serialize_tree(_)
serialize_tree(tree) ==
  serialize_node(tree, [k \in 1..Len(tree.children) |->
                          serialize_tree(tree.children[k])])

\* BehaviorLibrary.__init__: the two indexes, a later entry replacing an
\* earlier one under the same key
BehaviorLibrary(behavior_list) ==
  LET last(key, v) == CHOOSE k \in DOMAIN behavior_list :
                        /\ behavior_list[k][key] = v
                        /\ \A j \in DOMAIN behavior_list :
                             behavior_list[j][key] = v => j <= k
      index(key) == [v \in {behavior_list[k][key] : k \in DOMAIN behavior_list}
                       |-> behavior_list[last(key, v)]]
  IN  [behaviors |-> behavior_list,
       behavior_from_display_name |-> index("display_name"),
       behavior_from_id |-> index("id")]

\* what deserialize_node returns when nothing is raised for the node type
PyNone == [cls |-> "NoneType"]

CustomBehavior(name, id_, display_name) ==
  [cls |-> "CustomBehavior", name |-> name, id_ |-> id_,
   display_name |-> display_name, children |-> <<>>]

\* CustomSequence.__init__; add_children raises TypeError for a child that
\* is not a behaviour
CustomSequence(name, id_, display_name, kids) ==
  IF \E k \in DOMAIN kids : kids[k] = PyNone
  THEN [err |-> "TypeError", key |-> "", node |-> PyNone]
  ELSE [err |-> "none", key |-> "",
        node |-> [cls |-> "CustomSequence", name |-> name, id_ |-> id_,
                  display_name |-> display_name, children |-> kids]]

Raised(e, key) == [err |-> e, key |-> key, node |-> PyNone]

Returned(node) == [err |-> "none", key |-> "", node |-> node]

\* the methods of a Python list; self.behaviors is the list given to
\* BehaviorLibrary.__init__
ListMethods ==
  {"append", "clear", "copy", "count", "extend", "index", "insert", "pop",
   "remove", "reverse", "sort"}

\* BehaviorLibrary.get_behavior_by_display_name: self.behaviors.get(...)
get_behavior_by_display_name(self, display_name) ==
  IF "get" \notin ListMethods THEN Raised("AttributeError", "get")
  ELSE Returned(PyNone)

\* BehaviorLibrary.get_behavior_by_id: a loop over self.behaviors.values()
get_behavior_by_id(self, id_) ==
  IF "values" \notin ListMethods THEN Raised("AttributeError", "values")
  ELSE Returned(PyNone)

\* the node types deserialize_node lets pass
NodeTypes == {"Sequence", "Selector", "Behavior"}

RECURSIVE deserialize_node(_, _)
deserialize_node(library, node) ==
  LET \* the list comprehension: the children in order, up to the first
      \* one that raises
      RECURSIVE Kids(_, _)
      Kids(k, done) ==
        IF k > Len(node.children) THEN [err |-> "none", key |-> "",
                                        nodes |-> done]
        ELSE LET r == deserialize_node(library, node.children[k])
             IN  IF r.err # "none"
                 THEN [err |-> r.err, key |-> r.key, nodes |-> <<>>]
                 ELSE Kids(k + 1, Append(done, r.node))
  IN
  IF node.type \notin NodeTypes THEN Raised("AssertionError", "")
  ELSE IF node.name \notin DOMAIN library.behavior_from_display_name
  THEN Raised("KeyError", node.name)
  ELSE
    LET behavior == library.behavior_from_display_name[node.name]
    IN  IF node.type = "Sequence"
        THEN IF "children" \notin DOMAIN node
             THEN Raised("KeyError", "children")
             ELSE LET kids == Kids(1, <<>>)
                  IN  IF kids.err # "none" THEN Raised(kids.err, kids.key)
                      ELSE IF "name" \notin DOMAIN behavior
                      THEN Raised("KeyError", "name")
                      ELSE CustomSequence(behavior.name, behavior.id,
                                          behavior.name, kids.nodes)
        ELSE IF node.type = "Behavior"
        THEN IF "children" \in DOMAIN node /\ Len(node.children) # 0
             THEN Raised("AssertionError", "")
             ELSE IF "name" \notin DOMAIN behavior
             THEN Raised("KeyError", "name")
             ELSE Returned(CustomBehavior(behavior.name, behavior.id,
                                          behavior.name))
        ELSE Returned(PyNone)

deserialize_tree(tree, behavior_library) ==
  deserialize_node(behavior_library, tree)

----------------------------------------------------------------------------
(* The inputs of serialize_tree.py: behaviour lists, documents and trees.  *)

\* the catalog's entry for display name "A": with the keys the editor
\* reads (id, display_name), with a name equal to the display name, and
\* with a name of its own
EntriesA ==
  {[id |-> "i1", display_name |-> "A"],
   [id |-> "i1", display_name |-> "A", name |-> "A"],
   [id |-> "i1", display_name |-> "A", name |-> "a_fn"]}

EntryB == [id |-> "i2", display_name |-> "B", name |-> "B"]

BehaviorLists ==
  {<<>>} \cup {<<a>> : a \in EntriesA} \cup {<<a, EntryB>> : a \in EntriesA}

Names == {"A", "B"}

\* lists of one to MaxWidth elements of S
Lists(S) == UNION {[1..k -> S] : k \in 1..MaxWidth}

\* "Action" stands for every type the document grammar does not know
DocumentTypes == NodeTypes \cup {"Action"}

DocumentHeads == [type : DocumentTypes, name : Names]

WithChildren(head, kids) ==
  [type |-> head.type, name |-> head.name, children |-> kids]

\* nodes without children: no children key, or an empty list
DocumentLeaves ==
  DocumentHeads \cup {WithChildren(h, <<>>) : h \in DocumentHeads}

\* documents of one, two and three levels (the last a single chain)
Documents ==
  DocumentLeaves
  \cup {WithChildren(h, kids) :
          h \in DocumentHeads, kids \in Lists(DocumentLeaves)}
  \cup {WithChildren(h, <<WithChildren(g, <<l>>)>>) :
          h \in DocumentHeads, g \in DocumentHeads, l \in DocumentLeaves}

\* py_trees nodes: a Dummy and a library-backed CustomBehavior
TreeLeaves ==
  {[cls |-> "Dummy", name |-> n, children |-> <<>>] : n \in Names}
  \cup {CustomBehavior("A", "i1", "A"), CustomBehavior("B", "i2", "B"),
        CustomBehavior("a_fn", "i1", "A")}

WithKids(node, kids) == [node EXCEPT !.children = kids]

\* composites without children
TreeComposites ==
  {[cls |-> c, name |-> n, children |-> <<>>] :
     c \in {"Sequence", "Selector"}, n \in Names}
  \cup {[cls |-> "CustomSequence", name |-> b.name, id_ |-> b.id_,
         display_name |-> b.display_name, children |-> <<>>] :
          b \in {CustomBehavior("A", "i1", "A"),
                 CustomBehavior("B", "i2", "B"),
                 CustomBehavior("a_fn", "i1", "A")}}

Trees ==
  TreeLeaves \cup TreeComposites
  \cup {WithKids(c, kids) :
          c \in TreeComposites, kids \in Lists(TreeLeaves \cup TreeComposites)}
  \cup {WithKids(c, <<WithKids(d, <<l>>)>>) :
          c \in TreeComposites, d \in TreeComposites,
          l \in TreeLeaves \cup TreeComposites}

\* the value of a field of `ser` that holds nothing
NoValue == [cls |-> "", type |-> ""]

\* outside serialize_tree.py
Idle ==
  [stage |-> "idle", list |-> <<>>, doc |-> NoValue, tree |-> NoValue,
   err |-> "none", key |-> "", back |-> NoValue]

----------------------------------------------------------------------------
(* The session.                                                            *)

Now == Heap(children, parent)

NoWhere == <<None, 0>>

\* The content of main's protocol is kept in the runs of SpecLog only; in
\* the other runs it is abstracted to this value (no operation reads it).
NotKept == <<[function |-> "not kept"]>>

\* MutationResult(result=inner_result, tree=tree, function=f, kwargs=kwargs):
\* a tuple of references, `tree` is the tree object the loop works on
MutationResult(result, tree, function, kwargs) ==
  [result |-> result, tree |-> tree, function |-> function,
   kwargs |-> kwargs]

\* main: protocol.append(results), reached only when f returned
Record(function, kwargs, r) ==
  protocol' = IF protocol = NotKept \/ r.err # "none"
              THEN protocol
              ELSE Append(protocol,
                          MutationResult(r.ret, Root, function, kwargs))

Call(name, a, b, where, r) ==
  /\ children' = r.children
  /\ parent' = r.parent
  /\ pre' = [children |-> children, parent |-> parent]
  /\ ser' = ser
  /\ op' = [name |-> name, node |-> a, other |-> b, where |-> where,
            err |-> r.err, ret |-> r.ret, n |-> op.n + 1,
            rep |-> (op.name = name /\ op.node = a /\ op.other = b
                     /\ op.where = where /\ op.err = "none"),
            undo |-> (/\ name = "insert"
                      /\ op.name = "remove" /\ op.err = "none"
                      /\ op.node = a
                      /\ pre.parent[a] # None
                      /\ where = <<pre.parent[a],
                                    ListIndex(pre.children[pre.parent[a]],
                                              a)>>)]

Init ==
  /\ children = InitChildren
  /\ parent = InitParent
  /\ pre = [children |-> InitChildren, parent |-> InitParent]
  /\ ser = Idle
  /\ protocol = NotKept
  /\ op = [name |-> "load_experiment", node |-> None, other |-> None,
           where |-> NoWhere, err |-> "none", ret |-> None, n |-> 0,
           rep |-> FALSE, undo |-> FALSE]

\* main: an exception raised by a mutation is not caught, so the loop runs
\* only while no call has failed
Running ==
  /\ op.err = "none"
  /\ op.n < (IF protocol = NotKept THEN MaxCalls ELSE MaxLogged)

\* mutate_ui(remove): node from prompt_identify_node(tree)
MainRemove ==
  /\ Running
  /\ \E node \in Range(get_node_mapping(Now, Root)) :
       /\ Call("remove", node, None, NoWhere, remove(Now, node))
       /\ Record("remove", [node |-> node], remove(Now, node))

\* mutate_ui(insert): node from prompt_identify_library_node(library),
\* where from prompt_identify_insertion_index(tree)
MainInsert ==
  /\ Running
  /\ TotalSlots(children) < MaxSlots
  /\ \E node \in Range(get_library_mapping(Library)),
        where \in Range(get_insert_mapping(Now, Root).mapping) :
       /\ Call("insert", node, None, where, insert(Now, node, where))
       /\ Record("insert", [node |-> node, where |-> where],
                 insert(Now, node, where))

\* mutate_ui(move)
MainMove ==
  /\ Running
  /\ \E node \in Range(get_node_mapping(Now, Root)),
        where \in Range(get_insert_mapping(Now, Root).mapping) :
       /\ Call("move", node, None, where, move(Now, node, where))
       /\ Record("move", [node |-> node, where |-> where],
                 move(Now, node, where))

\* mutate_ui(exchange)
MainExchange ==
  /\ Running
  /\ \E node0 \in Range(get_node_mapping(Now, Root)),
        node1 \in Range(get_node_mapping(Now, Root)) :
       /\ Call("exchange", node0, node1, NoWhere,
               exchange(Now, node0, node1))
       /\ Record("exchange", [node0 |-> node0, node1 |-> node1],
                 exchange(Now, node0, node1))

\* end_experiment raises QuitException
MainEnd ==
  /\ Running
  /\ Call("end_experiment", None, None, NoWhere, Raise(Now, "QuitException"))
  /\ UNCHANGED protocol

Next == MainRemove \/ MainInsert \/ MainMove \/ MainExchange \/ MainEnd

Spec == Init /\ [][Next]_vars

\* the same loop with the content of its protocol kept
InitLog ==
  /\ children = InitChildren
  /\ parent = InitParent
  /\ pre = [children |-> InitChildren, parent |-> InitParent]
  /\ ser = Idle
  /\ protocol = <<>>
  /\ op = [name |-> "load_experiment", node |-> None, other |-> None,
           where |-> NoWhere, err |-> "none", ret |-> None, n |-> 0,
           rep |-> FALSE, undo |-> FALSE]

SpecLog == InitLog /\ [][Next]_vars

----------------------------------------------------------------------------
(* Direct callers of the four operations (the doctests, other front-ends): *)
(* a caller names any node of the tree, inserts any node that is outside   *)
(* the tree, passes any node of the tree as the target and any index from  *)
(* just before to just past the target's child list, and may go on calling *)
(* after an exception.                                                     *)

MoreCalls == op.n < MaxApiCalls

Indices(target) ==
  (0 - MaxOvershoot)..(Len(children[target]) + MaxOvershoot)

InTree == TreeNodes(Now)

Outside == {n \in Nodes \ InTree : parent[n] = None}

ApiRemove ==
  /\ MoreCalls
  /\ UNCHANGED protocol
  /\ \E node \in InTree :
       Call("remove", node, None, NoWhere, remove(Now, node))

ApiInsert ==
  /\ MoreCalls
  /\ UNCHANGED protocol
  /\ \E node \in Outside, target \in InTree :
       \E index \in Indices(target) :
         Call("insert", node, None, <<target, index>>,
              insert(Now, node, <<target, index>>))

ApiMove ==
  /\ MoreCalls
  /\ UNCHANGED protocol
  /\ \E node \in InTree, target \in InTree :
       \E index \in Indices(target) :
         Call("move", node, None, <<target, index>>,
              move(Now, node, <<target, index>>))

ApiExchange ==
  /\ MoreCalls
  /\ UNCHANGED protocol
  /\ \E node0 \in InTree, node1 \in InTree :
       Call("exchange", node0, node1, NoWhere, exchange(Now, node0, node1))

NextApi == ApiRemove \/ ApiInsert \/ ApiMove \/ ApiExchange

SpecApi == Init /\ [][NextApi]_vars

----------------------------------------------------------------------------
(* Callers of the addressing queries and of serialize_tree between direct  *)
(* calls of the operations: the tree handed in is any node without a       *)
(* parent, the session's root, a node of the library or a node that was    *)
(* removed.                                                                *)

Roots == {n \in Nodes : parent[n] = None}

\* a query that empties the child list of the tree while it walks it
Answer_Popping(s, tree, ret) ==
  [children |-> [s.children EXCEPT ![tree] = <<>>], parent |-> s.parent,
   err |-> "none", ret |-> ret]

\* a query returns its value; none of them assigns a field of a node
Answer(s, tree, ret) ==
  [children |-> s.children, parent |-> s.parent, err |-> "none",
   ret |-> ret]

\* the py_trees object of node n: a Sequence or a Dummy named after n
RECURSIVE Object(_, _)
Object(s, n) ==
  [cls |-> IF IsComposite(n) THEN "Sequence" ELSE "Dummy", name |-> n,
   children |-> [k \in 1..Len(s.children[n]) |-> Object(s, s.children[n][k])]]

AskNodeMapping ==
  /\ MoreCalls
  /\ UNCHANGED protocol
  /\ \E tree \in Roots :
       Call("get_node_mapping", tree, None, NoWhere,
            Answer(Now, tree, get_node_mapping(Now, tree)))

AskCompositeMapping ==
  /\ MoreCalls
  /\ UNCHANGED protocol
  /\ \E tree \in Roots :
       Call("get_composite_mapping", tree, None, NoWhere,
            Answer(Now, tree, get_composite_mapping(Now, tree)))

AskChildIndexMapping ==
  /\ MoreCalls
  /\ UNCHANGED protocol
  /\ \E tree \in Roots :
       Call("get_child_index_mapping", tree, None, NoWhere,
            Answer(Now, tree, get_child_index_mapping(Now, tree)))

AskInsertMapping ==
  /\ MoreCalls
  /\ UNCHANGED protocol
  /\ \E tree \in Roots :
       Call("get_insert_mapping", tree, None, NoWhere,
            Answer(Now, tree, get_insert_mapping(Now, tree)))

AskSerializeTree ==
  /\ MoreCalls
  /\ UNCHANGED protocol
  /\ \E tree \in Roots :
       Call("serialize_tree", tree, None, NoWhere,
            Answer(Now, tree, serialize_tree(Object(Now, tree))))

\* mutate_tree.prompt_identify_tree_iterator_index: show_root is passed
\* on; the call is recorded with 1 for show_root=True and 0 for False
AskTreeIndices ==
  /\ MoreCalls
  /\ UNCHANGED protocol
  /\ \E tree \in Roots, show_root \in BOOLEAN :
       Call("format_tree_with_indices", tree, None,
            <<None, IF show_root THEN 1 ELSE 0>>,
            Answer(Now, tree, format_tree_with_indices(Now, tree, show_root)))

NextAsk ==
  \/ ApiRemove \/ ApiInsert \/ ApiMove \/ ApiExchange
  \/ AskNodeMapping \/ AskCompositeMapping \/ AskChildIndexMapping
  \/ AskInsertMapping \/ AskSerializeTree \/ AskTreeIndices

SpecAsk == Init /\ [][NextAsk]_vars

----------------------------------------------------------------------------
(* behaviour_tree_library.py and ui_wrapper.build_tree: the objects are    *)
(* two Sequences and three Behaviours with ids of their own, all of them   *)
(* newly made (no children, no parent).                                    *)

Sequences == {1, 2}

Behaviours == Leaves

\* Sequence.add_child
add_child(s, self, child) ==
  [children |-> [s.children EXCEPT ![self] = Append(@, child)],
   parent |-> [s.parent EXCEPT ![child] = self],
   err |-> "none", ret |-> None]

\* Sequence.insert_child: an index outside [0, len] is passed over in
\* silence
insert_child(s, self, child, index) ==
  IF 0 <= index /\ index <= Len(s.children[self])
  THEN [children |-> [s.children EXCEPT ![self] = ListInsert(@, index, child)],
        parent |-> [s.parent EXCEPT ![child] = self],
        err |-> "none", ret |-> None]
  ELSE [s EXCEPT !.err = "none", !.ret = None]

\* Sequence.remove_child: list.remove drops the first occurrence
remove_child(s, self, child) ==
  IF InList(child, s.children[self])
  THEN [children |-> [s.children EXCEPT ![self] = ListRemove(@, child)],
        parent |-> [s.parent EXCEPT ![child] = None],
        err |-> "none", ret |-> None]
  ELSE [s EXCEPT !.err = "none", !.ret = None]

\* deserialize_behaviours: the dictionary id -> Behaviour; an id is written
\* as the number of its object
behaviours == [id \in Behaviours |-> id]

\* an id that is not a key of the dictionary
UnknownId == None

\* ui_wrapper.build_tree: parent_node and returned are the two Sequence
\* objects the function makes; behaviours[behaviour_id] raises KeyError for
\* an unknown id, after the behaviours before it got their parent
build_tree(s, parent_node, returned, children_ids, behaviours_) ==
  LET bad == {k \in DOMAIN children_ids :
                children_ids[k] \notin DOMAIN behaviours_}
      stop == IF bad = {} THEN Len(children_ids) + 1
              ELSE CHOOSE k \in bad : \A j \in bad : k <= j
      done == {behaviours_[children_ids[k]] : k \in 1..(stop - 1)}
      parents == [n \in Nodes |-> IF n \in done THEN parent_node
                                  ELSE s.parent[n]]
      children_behaviours == [k \in 1..(stop - 1) |->
                                behaviours_[children_ids[k]]]
  IN  IF bad # {}
      THEN [children |-> [s.children EXCEPT ![parent_node] = <<>>],
            parent |-> parents, err |-> "KeyError", ret |-> None]
      ELSE [children |-> [s.children EXCEPT ![parent_node] = <<>>,
                                            ![returned] = children_behaviours],
            parent |-> parents, err |-> "none", ret |-> returned]

\* the lists of child ids: up to MaxBuilt ids, repeated and unknown ones
\* included
IdLists == UNION {[1..k -> Behaviours \cup {UnknownId}] : k \in 0..MaxBuilt}

InitSeq ==
  /\ children = [n \in Nodes |-> <<>>]
  /\ parent = [n \in Nodes |-> None]
  /\ pre = [children |-> [n \in Nodes |-> <<>>],
            parent |-> [n \in Nodes |-> None]]
  /\ ser = Idle
  /\ protocol = NotKept
  /\ op = [name |-> "new", node |-> None, other |-> None,
           where |-> NoWhere, err |-> "none", ret |-> None, n |-> 0,
           rep |-> FALSE, undo |-> FALSE]

MoreSeqCalls == op.n < MaxSeqCalls

\* load_resources: sub_tree = build_tree(context_paragraph, children,
\* behaviours) on behaviours that deserialize_behaviours has just made
BuildTree ==
  /\ op.n = 0
  /\ UNCHANGED protocol
  /\ \E children_ids \in IdLists :
       Call("build_tree", 2, 1, children_ids,
            build_tree(Now, 2, 1, children_ids, behaviours))

SeqAddChild ==
  /\ MoreSeqCalls
  /\ UNCHANGED protocol
  /\ \E self \in Sequences, child \in Behaviours :
       Call("add_child", child, self, NoWhere, add_child(Now, self, child))

SeqInsertChild ==
  /\ MoreSeqCalls
  /\ UNCHANGED protocol
  /\ \E self \in Sequences, child \in Behaviours :
       \E index \in Indices(self) :
         Call("insert_child", child, self, <<self, index>>,
              insert_child(Now, self, child, index))

SeqRemoveChild ==
  /\ MoreSeqCalls
  /\ UNCHANGED protocol
  /\ \E self \in Sequences, child \in Behaviours :
       Call("remove_child", child, self, NoWhere,
            remove_child(Now, self, child))

NextSeq == SeqAddChild \/ SeqInsertChild \/ SeqRemoveChild

SpecSeq == InitSeq /\ [][NextSeq]_vars

\* the tree of a subgoal is built first and the Sequences are used after
NextBuild == BuildTree \/ SeqAddChild \/ SeqInsertChild \/ SeqRemoveChild

SpecBuild == InitSeq /\ [][NextBuild]_vars

----------------------------------------------------------------------------
(* A run of serialize_tree.py: a document is deserialized against a        *)
(* library and the tree serialized again, or a tree is serialized and the  *)
(* document deserialized again.                                            *)

InitSer ==
  /\ protocol = NotKept
  /\ children = InitChildren
  /\ parent = InitParent
  /\ pre = [children |-> InitChildren, parent |-> InitParent]
  /\ op = [name |-> "load_experiment", node |-> None, other |-> None,
           where |-> NoWhere, err |-> "none", ret |-> None, n |-> 0,
           rep |-> FALSE, undo |-> FALSE]
  /\ \E list \in BehaviorLists :
       \/ \E doc \in Documents :
            ser = [Idle EXCEPT !.stage = "document", !.list = list,
                               !.doc = doc]
       \/ \E tree \in Trees :
            ser = [Idle EXCEPT !.stage = "tree", !.list = list,
                               !.tree = tree]

\* deserialize_tree(document, BehaviorLibrary(list))
Deserialize ==
  /\ ser.stage = "document"
  /\ LET r == deserialize_tree(ser.doc, BehaviorLibrary(ser.list))
     IN  ser' = [ser EXCEPT !.stage = "deserialized", !.tree = r.node,
                            !.err = r.err, !.key = r.key]
  /\ UNCHANGED <<children, parent, op, pre, protocol>>

\* serialize_tree of the tree deserialize_tree returned; None has no
\* attribute to read
SerializeBack ==
  /\ ser.stage = "deserialized"
  /\ ser.err = "none"
  /\ ser' = IF ser.tree = PyNone
            THEN [ser EXCEPT !.stage = "serialized back",
                             !.err = "AttributeError"]
            ELSE [ser EXCEPT !.stage = "serialized back",
                             !.back = serialize_tree(ser.tree)]
  /\ UNCHANGED <<children, parent, op, pre, protocol>>

\* serialize_tree(tree)
Serialize ==
  /\ ser.stage = "tree"
  /\ ser' = [ser EXCEPT !.stage = "serialized",
                        !.doc = serialize_tree(ser.tree)]
  /\ UNCHANGED <<children, parent, op, pre, protocol>>

\* deserialize_tree of the document serialize_tree returned
DeserializeBack ==
  /\ ser.stage = "serialized"
  /\ LET r == deserialize_tree(ser.doc, BehaviorLibrary(ser.list))
     IN  ser' = [ser EXCEPT !.stage = "deserialized back", !.back = r.node,
                            !.err = r.err, !.key = r.key]
  /\ UNCHANGED <<children, parent, op, pre, protocol>>

NextSer == Deserialize \/ SerializeBack \/ Serialize \/ DeserializeBack

SpecSer == InitSer /\ [][NextSer]_vars

----------------------------------------------------------------------------
(* A behaviour library is built from a list of entries and asked for an    *)
(* entry by id or by display name.                                         *)

\* the state of the session variables outside a session
NoSession ==
  /\ protocol = NotKept
  /\ children = InitChildren
  /\ parent = InitParent
  /\ pre = [children |-> InitChildren, parent |-> InitParent]
  /\ op = [name |-> "load_experiment", node |-> None, other |-> None,
           where |-> NoWhere, err |-> "none", ret |-> None, n |-> 0,
           rep |-> FALSE, undo |-> FALSE]

\* entries with the keys BehaviorLibrary.__init__ reads
LibraryEntries == [id : {"i1", "i2"}, display_name : {"A", "B"}]

\* lists of up to MaxEntries entries, repeated ids and names included
EntryLists == UNION {[1..k -> LibraryEntries] : k \in 0..MaxEntries}

\* the ids and the display names asked for: those of the entries and one
\* that no entry has
LookupIds == {"i1", "i2", "i9"}

LookupNames == {"A", "B", "Z"}

InitLib ==
  /\ NoSession
  /\ \E list \in EntryLists :
       ser = [Idle EXCEPT !.stage = "list", !.list = list]

\* BehaviorLibrary(list); the object is kept in ser.back
Construct ==
  /\ ser.stage = "list"
  /\ ser' = [ser EXCEPT !.stage = "library",
                        !.back = BehaviorLibrary(ser.list)]
  /\ UNCHANGED <<children, parent, op, pre, protocol>>

GetById ==
  /\ ser.stage = "library"
  /\ \E id_ \in LookupIds :
       LET r == get_behavior_by_id(ser.back, id_)
       IN  ser' = [ser EXCEPT !.stage = "got by id", !.key = id_,
                              !.err = r.err, !.tree = r.node]
  /\ UNCHANGED <<children, parent, op, pre, protocol>>

GetByDisplayName ==
  /\ ser.stage = "library"
  /\ \E name \in LookupNames :
       LET r == get_behavior_by_display_name(ser.back, name)
       IN  ser' = [ser EXCEPT !.stage = "got by display name", !.key = name,
                              !.err = r.err, !.tree = r.node]
  /\ UNCHANGED <<children, parent, op, pre, protocol>>

NextLib == Construct \/ GetById \/ GetByDisplayName

SpecLib == InitLib /\ [][NextLib]_vars

----------------------------------------------------------------------------
(* json_encoder_decoder.py.  An object is a record with its class (module, *)
(* cls) and its attributes; a JSON object is a dictionary with string      *)
(* keys.  json.dumps writes the dictionaries that `default` returns and    *)
(* json.loads reads them back as they were written, so the JSON text is    *)
(* represented by the dictionary it denotes.                               *)

\* isinstance(obj, py_trees.composites.Composite)
CompositeClasses == {"Sequence", "Selector", "CustomSequence"}

RECURSIVE encode_py_trees_behavior(_)
encode_py_trees_behavior(obj) ==
  LET dict_ == ("__module__" :> obj.module) @@ ("__name__" :> obj.cls)
               @@ [name |-> obj.name]
  IN  IF obj.cls \in CompositeClasses
      THEN dict_ @@ [children |-> [k \in DOMAIN obj.children |->
                                     encode_py_trees_behavior(obj.children[k])],
                     memory |-> obj.memory]
      ELSE dict_

\* the modules whose name starts with "py_trees."
PyTreesModules == {"py_trees.composites", "py_trees.behaviours"}

\* a value is a behaviour object, not a dictionary
IsBehaviour(v) == "cls" \in DOMAIN v

\* cls(**d) for the classes of py_trees: the parameters each constructor
\* requires and accepts; Composite.__init__ adds the children and raises
\* TypeError for one that is not a behaviour
instantiate(module, cls, d) ==
  LET required == CASE cls \in {"Sequence", "Selector"} -> {"name", "memory"}
                    [] cls = "Periodic" -> {"name", "n"}
                    [] OTHER -> {"name"}
      accepted == IF cls \in {"Sequence", "Selector"}
                  THEN required \cup {"children"}
                  ELSE required
  IN  IF ~ (required \subseteq DOMAIN d /\ DOMAIN d \subseteq accepted)
      THEN Raised("TypeError", "")
      ELSE IF "children" \in DOMAIN d
              /\ \E k \in DOMAIN d.children : ~ IsBehaviour(d.children[k])
      THEN Raised("TypeError", "children")
      ELSE Returned([module |-> module, cls |-> cls] @@ d
                    @@ [children |-> <<>>])

without(d, keys) == [k \in DOMAIN d \ keys |-> d[k]]

\* PyTreesDecoder.from_dict
from_dict(d) ==
  IF "__module__" \in DOMAIN d /\ d["__module__"] \in PyTreesModules
  THEN instantiate(d["__module__"], d["__name__"],
                   without(d, {"__module__", "__name__"}))
  ELSE Returned(d)

\* json.loads with object_hook: the hook is applied to the innermost
\* objects first, and an exception raised by it ends the call
RECURSIVE loads(_)
loads(d) ==
  LET RECURSIVE Kids(_, _)
      Kids(k, done) ==
        IF k > Len(d.children) THEN Returned(done)
        ELSE LET r == loads(d.children[k])
             IN  IF r.err # "none" THEN r
                 ELSE Kids(k + 1, Append(done, r.node))
  IN  IF "children" \notin DOMAIN d THEN from_dict(d)
      ELSE LET kids == Kids(1, <<>>)
           IN  IF kids.err # "none" THEN kids
               ELSE from_dict([d EXCEPT !.children = kids.node])

\* json.dumps with PyTreesEncoder: `default` is called with the tree
dumps(obj) == encode_py_trees_behavior(obj)

\* py_trees.display.unicode_tree: one line per node in pre-order, with the
\* depth, the symbol of the node's kind and the name
RECURSIVE unicode_tree(_, _)
unicode_tree(obj, level) ==
  LET symbol == CASE obj.cls \in {"Sequence", "CustomSequence"}
                       -> IF obj.memory THEN "{-}" ELSE "[-]"
                  [] obj.cls = "Selector"
                       -> IF obj.memory THEN "{o}" ELSE "[o]"
                  [] OTHER -> "-->"
      RECURSIVE Kids(_)
      Kids(k) == IF k > Len(obj.children) THEN <<>>
                 ELSE unicode_tree(obj.children[k], level + 1) \o Kids(k + 1)
  IN  <<<<level, symbol, obj.name>>>> \o Kids(1)

\* the objects given to the encoder
Behaviour(module, cls, name) ==
  [module |-> module, cls |-> cls, name |-> name, children |-> <<>>]

CodecLeaves ==
  {Behaviour("py_trees.behaviours", "Dummy", n) : n \in Names}
  \cup {Behaviour("py_trees.behaviours", "Success", "A"),
        Behaviour("py_trees.behaviours", "Periodic", "A") @@ [n |-> 1],
        Behaviour("social_norms_trees.custom_node_library",
                  "CustomBehavior", "A")
          @@ [id_ |-> "i1", display_name |-> "A"]}

CodecComposites ==
  {Behaviour("py_trees.composites", c, "A") @@ [memory |-> m] :
     c \in {"Sequence", "Selector"}, m \in BOOLEAN}
  \cup {Behaviour("social_norms_trees.custom_node_library",
                  "CustomSequence", "A")
          @@ [id_ |-> "i1", display_name |-> "A", memory |-> FALSE]}

CodecTrees ==
  CodecLeaves \cup CodecComposites
  \cup {WithKids(c, kids) :
          c \in CodecComposites,
          kids \in Lists(CodecLeaves \cup CodecComposites)}
  \cup {WithKids(c, <<WithKids(d, <<l>>)>>) :
          c \in CodecComposites, d \in CodecComposites,
          l \in CodecLeaves \cup CodecComposites}

InitJson ==
  /\ NoSession
  /\ \E tree \in CodecTrees :
       ser = [Idle EXCEPT !.stage = "object", !.tree = tree]

\* dumped = json.dumps(tree, cls=PyTreesEncoder)
Dumps ==
  /\ ser.stage = "object"
  /\ ser' = [ser EXCEPT !.stage = "dumped", !.doc = dumps(ser.tree)]
  /\ UNCHANGED <<children, parent, op, pre, protocol>>

\* loaded = json.loads(dumped, cls=PyTreesDecoder)
Loads ==
  /\ ser.stage = "dumped"
  /\ LET r == loads(ser.doc)
     IN  ser' = [ser EXCEPT !.stage = "loaded", !.back = r.node,
                            !.err = r.err, !.key = r.key]
  /\ UNCHANGED <<children, parent, op, pre, protocol>>

NextJson == Dumps \/ Loads

SpecJson == InitJson /\ [][NextJson]_vars

----------------------------------------------------------------------------
(* Vocabulary of the properties.                                           *)

\* the heap before the last call
Pre == Heap(pre.children, pre.parent)

Unchanged == children = pre.children /\ parent = pre.parent

\* how many times n is listed as a child by the nodes of the tree
Occurrences(s, n) ==
  LET RECURSIVE Sum(_)
      Sum(S) == IF S = {} THEN 0
                ELSE LET c == CHOOSE x \in S : TRUE
                     IN  Count(n, s.children[c]) + Sum(S \ {c})
  IN  Sum(TreeNodes(s))

\* the invariants of the data model
WellFormed(s) ==
  LET T == TreeNodes(s)
  IN  /\ \A n \in T : (s.parent[n] = None) <=> (n = Root)
      /\ \A n \in T : Occurrences(s, n) = (IF n = Root THEN 0 ELSE 1)
      /\ \A n \in T \ {Root} :
           s.parent[n] \in T /\ InList(n, s.children[s.parent[n]])
      /\ \A n \in T : ~ IsComposite(n) => s.children[n] = <<>>

Target == op.where[1]

Index == op.where[2]

----------------------------------------------------------------------------
(* C1: after every call of a session of the main loop (arguments from the  *)
(* addressing functions, inserted nodes from the library list), exactly    *)
(* one node of the tree has no parent, and every other node of the tree    *)
(* occurs exactly once in its parent's children and in no other node's     *)
(* children.                                                               *)
C1_ParentInvariant ==
  LET T == TreeNodes(Now)
  IN  /\ Cardinality({n \in T : parent[n] = None}) = 1
      /\ \A n \in T :
           parent[n] # None =>
             /\ Count(n, children[parent[n]]) = 1
             /\ \A c \in Nodes \ {parent[n]} : ~ InList(n, children[c])

(* C2: after every call of a session, the structure reached by following   *)
(* children from the root is a proper tree: every reached node is listed   *)
(* as a child exactly once (the root never), so none is reached twice,     *)
(* none is its own ancestor and none is a child of two composites.         *)
C2_ProperTree ==
  \A n \in TreeNodes(Now) :
    /\ Occurrences(Now, n) = (IF n = Root THEN 0 ELSE 1)
    /\ n \notin Descendants(Now, n)

(* C3: a move whose target composite is the moved node itself or one of    *)
(* its descendants is rejected with an error and changes nothing.          *)
C3_MoveIntoOwnSubtreeRejected ==
  (/\ op.name = "move"
   /\ Target \in {op.node} \cup Descendants(Pre, op.node))
  => (op.err # "none" /\ Unchanged)

(* C4: a move that fails (the node is the root, the target cannot accept   *)
(* children, or the index is out of range) leaves the tree exactly as it   *)
(* was: in particular the node is still a child of its original parent at  *)
(* its original index.                                                     *)
C4_FailedMoveChangesNothing ==
  (op.name = "move" /\ op.err # "none") => Unchanged

(* C5: an insert into a composite C with an index outside                  *)
(* [0, len(C.children)] fails with an error and leaves C.children and      *)
(* node.parent unchanged.                                                  *)
C5_InsertOutOfRangeFails ==
  (/\ op.name = "insert"
   /\ IsComposite(Target)
   /\ (Index < 0 \/ Index > Len(pre.children[Target])))
  => /\ op.err # "none"
     /\ children[Target] = pre.children[Target]
     /\ parent[op.node] = pre.parent[op.node]

\* the precondition of C6: an insert into a composite at an index of its
\* child list
InsertInRange ==
  /\ op.name = "insert"
  /\ IsComposite(Target)
  /\ 0 <= Index /\ Index <= Len(pre.children[Target])

(* C6: an insert into a composite C at an index with                       *)
(* 0 <= index <= len(C.children) succeeds; afterwards C.children[index] is *)
(* the node, the children that were at positions >= index are one position *)
(* to the right in the same order, those at positions < index are where    *)
(* they were, and node.parent is C.  With index = len(C.children) the node *)
(* is the last child.                                                      *)
C6_InsertInRange ==
  InsertInRange =>
    LET old == pre.children[Target]
        new == children[Target]
    IN  /\ op.err = "none"
        /\ Len(new) = Len(old) + 1
        /\ new[Index + 1] = op.node
        /\ \A k \in 1..Len(old) :
             IF k <= Index THEN new[k] = old[k] ELSE new[k + 1] = old[k]
        /\ parent[op.node] = Target
        /\ (Index = Len(old) => new[Len(new)] = op.node)

\* an insert in front of existing children, which are shifted
C6_Witness ==
  /\ InsertInRange
  /\ Index < Len(pre.children[Target])
  /\ Index > 0
  /\ op.err = "none"
  /\ children[Target][Index + 1] = op.node

\* seq without its entries equal to x
Without(seq, x) == SelectSeq(seq, LAMBDA y : y # x)

\* the nodes of n's subtree keep their children, and those below n keep
\* their parent
SubtreeIntact(n) ==
  /\ \A d \in {n} \cup Descendants(Pre, n) : children[d] = pre.children[d]
  /\ \A d \in Descendants(Pre, n) : parent[d] = pre.parent[d]

\* the precondition of C7: remove was called on a non-root node of a
\* well-formed tree
RemoveNonRoot ==
  /\ op.name = "remove"
  /\ WellFormed(Pre)
  /\ op.node \in TreeNodes(Pre)
  /\ pre.parent[op.node] # None

(* C7: remove(n) on a non-root node n of a well-formed tree returns n with *)
(* n.parent cleared and n's subtree unchanged; n no longer occurs in its   *)
(* former parent's children, the former siblings keep their relative       *)
(* order, and no other child list changes.                                 *)
C7_RemoveDetaches ==
  RemoveNonRoot =>
    LET n == op.node
        p == pre.parent[n]
    IN  /\ op.err = "none"
        /\ op.ret = n
        /\ parent[n] = None
        /\ SubtreeIntact(n)
        /\ ~ InList(n, children[p])
        /\ children[p] = Without(pre.children[p], n)
        /\ \A c \in Nodes \ {p} : children[c] = pre.children[c]
        /\ \A m \in Nodes \ {n} : parent[m] = pre.parent[m]

\* a composite with a child of its own was removed from between siblings
C7_Witness ==
  /\ RemoveNonRoot
  /\ op.err = "none"
  /\ children[op.node] # <<>>
  /\ Len(pre.children[pre.parent[op.node]]) >= 3
  /\ pre.children[pre.parent[op.node]][2] = op.node

Unrelated(s, a, b) ==
  /\ a # b
  /\ s.parent[a] # None /\ s.parent[b] # None
  /\ a \notin Descendants(s, b)
  /\ b \notin Descendants(s, a)

\* the 0-based index of n in its parent's children
IndexIn(s, n) == ListIndex(s.children[s.parent[n]], n)

\* the precondition of C9: exchange was called on two unrelated non-root
\* nodes of a well-formed tree
ExchangeUnrelated ==
  /\ op.name = "exchange"
  /\ WellFormed(Pre)
  /\ {op.node, op.other} \subseteq TreeNodes(Pre)
  /\ Unrelated(Pre, op.node, op.other)

(* C9: for distinct non-root nodes a and b of a well-formed tree, neither  *)
(* an ancestor of the other, after exchange(a, b) node a is at b's         *)
(* original (parent, index), b is at a's original (parent, index), both    *)
(* subtrees are intact and every other node keeps its parent and index.    *)
C9_ExchangeSwapsPositions ==
  ExchangeUnrelated =>
    LET a == op.node
        b == op.other
    IN  /\ op.err = "none"
        /\ parent[a] = pre.parent[b]
        /\ IndexIn(Now, a) = IndexIn(Pre, b)
        /\ parent[b] = pre.parent[a]
        /\ IndexIn(Now, b) = IndexIn(Pre, a)
        /\ SubtreeIntact(a)
        /\ SubtreeIntact(b)
        /\ \A n \in Nodes \ {a, b} :
             /\ parent[n] = pre.parent[n]
             /\ pre.parent[n] # None => IndexIn(Now, n) = IndexIn(Pre, n)
        /\ WellFormed(Now)

\* a composite with a child was exchanged with a node under another parent
C9_Witness ==
  /\ ExchangeUnrelated
  /\ op.err = "none"
  /\ pre.parent[op.node] # pre.parent[op.other]
  /\ children[op.node] # <<>>
  /\ parent[op.node] = pre.parent[op.other]

\* two siblings that are not neighbours were exchanged
C9_WitnessSiblings ==
  /\ ExchangeUnrelated
  /\ op.err = "none"
  /\ pre.parent[op.node] = pre.parent[op.other]
  /\ IndexIn(Pre, op.node) > IndexIn(Pre, op.other) + 1

(* C10: applying exchange(a, b) twice to two unrelated non-root nodes of a *)
(* well-formed tree returns the tree to the original arrangement: when the *)
(* call that follows such an exchange is exchange(a, b) again, it restores *)
(* the heap the first one started from.                                    *)
C10_ExchangeTwiceRestores ==
  [][(/\ ExchangeUnrelated
      /\ op.err = "none"
      /\ op'.name = "exchange"
      /\ op'.node = op.node
      /\ op'.other = op.other)
     => (children' = pre.children /\ parent' = pre.parent)]_vars

\* the second of two equal exchanges has just run and moved both nodes
C10_Witness ==
  /\ op.name = "exchange"
  /\ op.rep
  /\ op.err = "none"
  /\ WellFormed(Now)
  /\ Unrelated(Now, op.node, op.other)
  /\ parent[op.node] # parent[op.other]
  /\ children # pre.children

(* C11: for a non-root node n of a well-formed tree, with parent p and     *)
(* index i, when remove(n) is followed by insert(n, p, i), the tree is     *)
(* again the one remove started from: every node has the same children in  *)
(* the same order and the same parent.                                     *)
C11_InsertUndoesRemove ==
  [][(/\ RemoveNonRoot
      /\ op.err = "none"
      /\ op'.name = "insert"
      /\ op'.node = op.node
      /\ op'.where = <<pre.parent[op.node], IndexIn(Pre, op.node)>>)
     => (/\ op'.err = "none"
         /\ children' = pre.children
         /\ parent' = pre.parent)]_vars

\* a composite with a child was removed from before a sibling and has been
\* inserted again where it was
C11_Witness ==
  /\ op.name = "insert"
  /\ op.undo
  /\ op.err = "none"
  /\ WellFormed(Now)
  /\ children[op.node] # <<>>
  /\ Index + 1 < Len(children[Target])
  /\ children[Target][Index + 1] = op.node
  /\ children # pre.children

\* the precondition of C12: move was called on a non-root node of a
\* well-formed tree, with a composite of the tree outside the node's
\* subtree as the target and an index within the target's children once
\* the node is detached
MoveInRange ==
  /\ op.name = "move"
  /\ WellFormed(Pre)
  /\ {op.node, Target} \subseteq TreeNodes(Pre)
  /\ pre.parent[op.node] # None
  /\ IsComposite(Target)
  /\ Target \notin {op.node} \cup Descendants(Pre, op.node)
  /\ Index >= 0
  /\ Index <= Len(Without(pre.children[Target], op.node))

(* C12: move(node, C, index) leaves the tree as remove(node) followed by   *)
(* insert(node, C, index) does: the node is gone from its former parent,   *)
(* whose other children keep their order, and stands at position index of  *)
(* C's children counted with the node detached; the node's subtree and     *)
(* every other node are untouched, and the same move made again changes    *)
(* nothing.                                                                *)
C12_MoveIsRemoveThenInsert ==
  MoveInRange =>
    LET n == op.node
        p == pre.parent[n]
        C == Target
    IN  /\ op.err = "none"
        /\ parent[n] = C
        /\ Count(n, children[C]) = 1
        /\ IndexIn(Now, n) = Index
        /\ Without(children[C], n) = Without(pre.children[C], n)
        /\ p # C => children[p] = Without(pre.children[p], n)
        /\ \A c \in Nodes \ {p, C} : children[c] = pre.children[c]
        /\ \A m \in Nodes \ {n} : parent[m] = pre.parent[m]
        /\ SubtreeIntact(n)
        /\ op.rep => Unchanged

\* the first of two children was moved to index 1 of the same parent and is
\* now the last child
C12_Witness ==
  /\ MoveInRange
  /\ Target = pre.parent[op.node]
  /\ Len(pre.children[Target]) = 2
  /\ pre.children[Target][1] = op.node
  /\ Index = 1
  /\ children[Target][2] = op.node

\* the same move was made a second time
C12_WitnessRepeat ==
  /\ MoveInRange
  /\ op.rep
  /\ Target = pre.parent[op.node]
  /\ Index = 1
  /\ Len(children[Target]) = 2
  /\ children[Target][2] = op.node

\* the labels of the full enumeration of the tree
NodeLabels == DOMAIN get_node_mapping(Now, Root)

(* C20: for every well-formed tree of N nodes, the full enumeration has N  *)
(* labels, the labels are 0..N-1, every node of the tree has exactly one   *)
(* label and label 0 is the root.                                          *)
C20_FullEnumeration ==
  WellFormed(Now) =>
    LET m == get_node_mapping(Now, Root)
        N == Cardinality(TreeNodes(Now))
    IN  /\ Cardinality(DOMAIN m) = N
        /\ DOMAIN m = 0..(N - 1)
        /\ \A n \in TreeNodes(Now) :
             Cardinality({l \in DOMAIN m : m[l] = n}) = 1
        /\ \A l \in DOMAIN m : m[l] \in TreeNodes(Now)
        /\ m[0] = Root

\* a tree of at least five nodes, changed by the session, with a labelled
\* node two levels below the root
C20_Witness ==
  /\ WellFormed(Now)
  /\ op.n >= 1
  /\ Cardinality(NodeLabels) >= 5
  /\ \E l \in NodeLabels :
       LET n == get_node_mapping(Now, Root)[l]
       IN  l >= 2 /\ parent[n] # None /\ parent[n] # Root

\* every node of the tree has an id_ and a display_name, and the library
\* has an entry with that display name and that id
RECURSIVE InLibrary(_, _)
InLibrary(tree, library) ==
  /\ {"id_", "display_name"} \subseteq DOMAIN tree
  /\ tree.display_name \in DOMAIN library.behavior_from_display_name
  /\ library.behavior_from_display_name[tree.display_name].id = tree.id_
  /\ \A k \in DOMAIN tree.children : InLibrary(tree.children[k], library)

(* C13: for every tree whose nodes all carry identities present in the     *)
(* library, a composite without children included, deserializing the       *)
(* serialized tree against the library succeeds and returns a tree equal   *)
(* to the original.                                                        *)
C13_RoundTripTree ==
  (ser.stage = "deserialized back"
   /\ InLibrary(ser.tree, BehaviorLibrary(ser.list)))
  => (ser.err = "none" /\ ser.back = ser.tree)

\* the document with every name replaced by the display name of the entry
\* the library holds for it
RECURSIVE Normalized(_, _)
Normalized(doc, library) ==
  LET index == library.behavior_from_display_name
      name == IF doc.name \in DOMAIN index
              THEN index[doc.name].display_name
              ELSE doc.name
  IN  IF "children" \in DOMAIN doc
      THEN [doc EXCEPT !.name = name,
                       !.children = [k \in DOMAIN doc.children |->
                                       Normalized(doc.children[k], library)]]
      ELSE [doc EXCEPT !.name = name]

(* C14: for every document that deserializes successfully against the     *)
(* library, serializing the deserialized tree gives the document again,    *)
(* with each name normalized to the library's display name: the same type  *)
(* values, the same keys and the same children.                            *)
C14_RoundTripDocument ==
  ser.stage = "serialized back"
  => (/\ ser.err = "none"
      /\ ser.back = Normalized(ser.doc, BehaviorLibrary(ser.list)))

\* the names of the document's nodes, at every depth
RECURSIVE DocumentNames(_)
DocumentNames(doc) ==
  {doc.name}
  \cup (IF "children" \in DOMAIN doc
        THEN UNION {DocumentNames(doc.children[k]) : k \in DOMAIN doc.children}
        ELSE {})

MissingNames ==
  DocumentNames(ser.doc)
  \ DOMAIN BehaviorLibrary(ser.list).behavior_from_display_name

(* C15: whenever the name of some node of the document, at any depth, has  *)
(* no entry in the library's display-name index, deserialize fails with a  *)
(* lookup error (KeyError) that names a missing display name, and returns  *)
(* no node.                                                                *)
C15_MissingNameFails ==
  (ser.stage = "deserialized" /\ MissingNames # {})
  => (/\ ser.err = "KeyError"
      /\ ser.key \in MissingNames
      /\ ser.tree = PyNone)

\* the nodes of the document, at every depth
RECURSIVE DocumentNodes(_)
DocumentNodes(doc) ==
  {doc}
  \cup (IF "children" \in DOMAIN doc
        THEN UNION {DocumentNodes(doc.children[k]) : k \in DOMAIN doc.children}
        ELSE {})

HasChildren(node) == "children" \in DOMAIN node /\ Len(node.children) >= 1

(* C16: deserialize fails with the malformed-document error                *)
(* (AssertionError) for every document in which some node of type Behavior *)
(* has one or more children, and a document that is a Behavior node with   *)
(* a known name and no children key or an empty children list is accepted. *)
C16_BehaviorWithChildrenFails ==
  ser.stage = "deserialized"
  => /\ (\E node \in DocumentNodes(ser.doc) :
           node.type = "Behavior" /\ HasChildren(node))
        => ser.err = "AssertionError"
     /\ (ser.doc.type = "Behavior" /\ ~ HasChildren(ser.doc)
         /\ MissingNames = {})
        => (ser.err = "none" /\ ser.tree # PyNone)

\* the recognized kinds of the document grammar
GrammarTypes == {"Sequence", "Behavior"}

(* C17: deserialize fails with the malformed-document error                *)
(* (AssertionError) for every document that contains a node whose type is  *)
(* neither Sequence nor Behavior.                                          *)
C17_UnknownTypeFails ==
  (ser.stage = "deserialized"
   /\ \E node \in DocumentNodes(ser.doc) : node.type \notin GrammarTypes)
  => ser.err = "AssertionError"

\* the node built for a document node, and each node below it, has the id
\* and the display name of the entry found under the document node's name
RECURSIVE CarriesEntry(_, _, _)
CarriesEntry(doc, tree, library) ==
  LET entry == library.behavior_from_display_name[doc.name]
  IN  /\ tree.id_ = entry.id
      /\ tree.display_name = entry.display_name
      /\ \A k \in DOMAIN tree.children :
           CarriesEntry(doc.children[k], tree.children[k], library)

(* C18: every node that deserialize produces carries the id and the        *)
(* display name of the library entry found under the document node's name: *)
(* node.id_ is the entry's id and node.display_name is the entry's         *)
(* display_name.                                                           *)
C18_NodeCarriesEntry ==
  (ser.stage = "deserialized" /\ ser.err = "none" /\ ser.tree # PyNone)
  => CarriesEntry(ser.doc, ser.tree, BehaviorLibrary(ser.list))

\* the dictionary of a node has type and name, display_name and id_ exactly
\* when the node has them, children exactly when the node has a child, and
\* the children's dictionaries in the order of the children
RECURSIVE Emitted(_, _)
Emitted(tree, doc) ==
  /\ {"type", "name"} \subseteq DOMAIN doc
  /\ DOMAIN doc \subseteq {"type", "name", "display_name", "id_", "children"}
  /\ doc.type = tree.cls
  /\ doc.name = tree.name
  /\ "display_name" \in DOMAIN doc <=> "display_name" \in DOMAIN tree
  /\ "display_name" \in DOMAIN doc => doc.display_name = tree.display_name
  /\ "id_" \in DOMAIN doc <=> "id_" \in DOMAIN tree
  /\ "id_" \in DOMAIN doc => doc.id_ = tree.id_
  /\ "children" \in DOMAIN doc <=> Len(tree.children) >= 1
  /\ "children" \in DOMAIN doc =>
       /\ Len(doc.children) = Len(tree.children)
       /\ \A k \in DOMAIN tree.children :
            Emitted(tree.children[k], doc.children[k])

(* C19: serialize emits type and name for every node, display_name and id_ *)
(* exactly for the nodes that carry them, children exactly for the nodes   *)
(* that have at least one child, and the children in the order of the      *)
(* tree.                                                                   *)
C19_SerializeEmits ==
  ser.stage = "serialized" => Emitted(ser.tree, ser.doc)

\* a library-backed composite was serialized whose two children are, in
\* this order, a plain Dummy and a composite without children
C19_Witness ==
  /\ ser.stage = "serialized"
  /\ ser.tree.cls = "CustomSequence"
  /\ Len(ser.tree.children) = 2
  /\ ser.tree.children[1].cls = "Dummy"
  /\ ser.tree.children[2].cls = "Sequence"
  /\ DOMAIN ser.doc.children[1] = {"type", "name"}
  /\ ser.doc.children[2].type = "Sequence"

\* the label of node n in the full enumeration of a well-formed tree
LabelOf(n) ==
  LET m == get_node_mapping(Now, Root)
  IN  CHOOSE l \in DOMAIN m : m[l] = n

(* C21: the full enumeration of a well-formed tree labels the nodes in     *)
(* depth-first pre-order: a node's label is smaller than the label of each *)
(* of its descendants, siblings are labelled in the order of the child     *)
(* list, and the labels of a subtree are the contiguous range that starts  *)
(* at the label of the subtree's root.                                     *)
C21_PreOrderLabels ==
  WellFormed(Now) =>
    \A n \in TreeNodes(Now) :
      LET sub == {n} \cup Descendants(Now, n)
      IN  /\ \A d \in Descendants(Now, n) : LabelOf(n) < LabelOf(d)
          /\ \A i \in DOMAIN children[n], j \in DOMAIN children[n] :
               i < j => LabelOf(children[n][i]) < LabelOf(children[n][j])
          /\ {LabelOf(d) : d \in sub}
               = LabelOf(n)..(LabelOf(n) + Cardinality(sub) - 1)

\* a tree changed by the session in which a composite with a child of its
\* own is followed by a sibling
C21_Witness ==
  /\ WellFormed(Now)
  /\ children # InitChildren
  /\ \E n \in TreeNodes(Now) \ {Root} :
       /\ children[n] # <<>>
       /\ Len(children[parent[n]]) > IndexIn(Now, n) + 1
       /\ LabelOf(children[parent[n]][IndexIn(Now, n) + 2])
            = LabelOf(n) + Cardinality(Descendants(Now, n)) + 1

\* the pre-order position (0-based) of the k-th line of the rendering
LineNode(k) == iterate_nodes(Now, Root)[k]

(* C22: in the composite-only enumeration of a well-formed tree the        *)
(* allowed labels are exactly the pre-order indices of the composites,     *)
(* each allowed label maps to the node it maps to in the full enumeration, *)
(* and the line of every leaf carries the skip label while the line of a   *)
(* composite carries its pre-order index (a leaf still takes up one        *)
(* position); a tree that is a single leaf gives an empty mapping.         *)
C22_CompositeLabels ==
  WellFormed(Now) =>
    LET c == get_composite_mapping(Now, Root)
        m == get_node_mapping(Now, Root)
    IN  /\ DOMAIN c.mapping = {l \in DOMAIN m : IsComposite(m[l])}
        /\ Range(c.labels) = DOMAIN c.mapping
        /\ Len(c.labels) = Cardinality(DOMAIN c.mapping)
        /\ \A l \in DOMAIN c.mapping : c.mapping[l] = m[l]
        /\ Len(c.representation) = Cardinality(DOMAIN m)
        /\ \A k \in DOMAIN c.representation :
             /\ c.representation[k][2] = LineNode(k)
             /\ c.representation[k][1]
                  = (IF IsComposite(LineNode(k)) THEN k - 1 ELSE skip_label)
        /\ \A leaf \in Leaves :
             get_composite_mapping(Now, leaf).mapping = <<>>

\* a composite is labelled after a leaf that precedes it in pre-order
C22_Witness ==
  /\ WellFormed(Now)
  /\ children # InitChildren
  /\ LET c == get_composite_mapping(Now, Root)
     IN  \E k \in DOMAIN c.representation :
           /\ k >= 3
           /\ c.representation[k - 1][1] = skip_label
           /\ c.representation[k][1] = k - 1
           /\ k - 1 \in DOMAIN c.mapping

InsertPoints == get_insert_mapping(Now, Root)

\* the labels of the insertion points owned by composite C
LabelsOf(C) ==
  {l \in DOMAIN InsertPoints.mapping : InsertPoints.mapping[l][1] = C}

(* C24: in the insertion-point enumeration of a well-formed tree, a        *)
(* composite with n children contributes exactly n+1 insertion-point       *)
(* labels, and exactly 1 when it has no children; no label belongs to a    *)
(* leaf.                                                                   *)
C24_InsertionPointCount ==
  WellFormed(Now) =>
    /\ \A C \in TreeNodes(Now) \cap Composites :
         /\ Cardinality(LabelsOf(C)) = Len(children[C]) + 1
         /\ children[C] = <<>> => Cardinality(LabelsOf(C)) = 1
    /\ \A l \in DOMAIN InsertPoints.mapping :
         InsertPoints.mapping[l][1] \in TreeNodes(Now) \cap Composites

\* the changed tree has a composite without children and a composite with
\* three children, a composite among them
C24_Witness ==
  /\ WellFormed(Now)
  /\ children # InitChildren
  /\ \E C \in TreeNodes(Now) \cap Composites, D \in TreeNodes(Now) :
       /\ Len(children[C]) = 3
       /\ Cardinality(LabelsOf(C)) = 4
       /\ \E k \in 1..3 : IsComposite(children[C][k])
       /\ D \in Composites
       /\ children[D] = <<>>
       /\ Cardinality(LabelsOf(D)) = 1

\* the lines of the rendering with the insertion points
Lines == InsertPoints.representation

\* the node a line belongs to: the node it shows, or the owner of the
\* insertion point it shows
LineOwner(i) ==
  IF Lines[i].point THEN InsertPoints.mapping[Lines[i].what][1]
  ELSE Lines[i].what

\* the line that shows node n
LineOf(n) == CHOOSE i \in DOMAIN Lines : ~ Lines[i].point /\ Lines[i].what = n

\* the last line that belongs to the subtree of n
LastLineOf(n) ==
  CHOOSE i \in DOMAIN Lines :
    /\ LineOwner(i) \in {n} \cup Descendants(Now, n)
    /\ \A j \in DOMAIN Lines :
         LineOwner(j) \in {n} \cup Descendants(Now, n) => j <= i

\* line i shows an insertion point whose label maps to (C, k)
PointAt(i, C, k) ==
  /\ i \in DOMAIN Lines
  /\ Lines[i].point
  /\ InsertPoints.mapping[Lines[i].what] = <<C, k>>

(* C25: in the insertion-point enumeration of a well-formed tree each      *)
(* label maps to (owning composite, index in the owning composite): the    *)
(* label rendered immediately before child k of composite C maps to        *)
(* (C, k), the label rendered after C's last child maps to                 *)
(* (C, len(C.children)), and the single label of a composite C without     *)
(* children maps to (C, 0).                                                *)
C25_InsertionPointTarget ==
  WellFormed(Now) =>
    \A C \in TreeNodes(Now) \cap Composites :
      LET n == Len(children[C])
      IN  /\ \A k \in 0..(n - 1) :
               PointAt(LineOf(children[C][k + 1]) - 1, C, k)
          /\ n > 0 => PointAt(LastLineOf(children[C][n]) + 1, C, n)
          /\ n = 0 => PointAt(LineOf(C) + 1, C, 0)
          /\ {InsertPoints.mapping[l][2] : l \in LabelsOf(C)} = 0..n

\* the point after the last child of a composite follows the lines of that
\* child's own subtree, and an empty composite has its point at index 0
C25_Witness ==
  /\ WellFormed(Now)
  /\ children # InitChildren
  /\ \E C \in TreeNodes(Now) \cap Composites :
       LET n == Len(children[C])
       IN  /\ n >= 2
           /\ children[children[C][n]] # <<>>
           /\ LastLineOf(children[C][n]) > LineOf(children[C][n]) + 1
           /\ PointAt(LastLineOf(children[C][n]) + 1, C, n)
  /\ \E D \in TreeNodes(Now) \cap Composites :
       children[D] = <<>> /\ PointAt(LineOf(D) + 1, D, 0)

\* the labels of the rendered insertion points, from top to bottom
RenderedLabels ==
  LET pts == SelectSeq(Lines, LAMBDA line : line.point)
  IN  [k \in DOMAIN pts |-> pts[k].what]

(* C26: insertion-point labels are assigned in traversal order across the  *)
(* whole tree, not per composite: with m insertion points the labels are   *)
(* the consecutive integers 0..m-1, each rendered once, and they increase  *)
(* strictly from the top to the bottom of the rendering.                   *)
C26_InsertionLabelsInOrder ==
  LET m == Len(RenderedLabels)
  IN  /\ DOMAIN InsertPoints.mapping = 0..(m - 1)
      /\ InsertPoints.labels = [k \in 1..m |-> k - 1]
      /\ RenderedLabels = [k \in 1..m |-> k - 1]
      /\ \A i \in 1..m, j \in 1..m :
           i < j => RenderedLabels[i] < RenderedLabels[j]

\* the labels of one composite are interrupted by those of another: a
\* composite owns two labels that are not consecutive
C26_Witness ==
  /\ children # InitChildren
  /\ op.err = "none"
  /\ \E C \in TreeNodes(Now) \cap Composites :
       \E l \in LabelsOf(C), h \in LabelsOf(C) :
         /\ l + 1 < h
         /\ \A x \in (l + 1)..(h - 1) : x \notin LabelsOf(C)
  /\ Len(RenderedLabels) >= 6

(* C27: no mutation changes the behaviour library: after every call of a   *)
(* session, inserts of a node picked from the library included, every      *)
(* library entry is as at the start of the session: the same fields, no    *)
(* parent, and not a member of any composite's children.                   *)
C27_LibraryUntouched ==
  \A n \in Range(get_library_mapping(Library)) :
    /\ children[n] = InitChildren[n]
    /\ parent[n] = InitParent[n]
    /\ parent[n] = None
    /\ \A c \in Nodes : ~ InList(n, children[c])

\* every entry is found under its display name and under its id, and both
\* indexes have as many entries as the list
Indexed(library, list) ==
  /\ \A k \in DOMAIN list :
       /\ list[k].display_name \in DOMAIN library.behavior_from_display_name
       /\ library.behavior_from_display_name[list[k].display_name] = list[k]
       /\ list[k].id \in DOMAIN library.behavior_from_id
       /\ library.behavior_from_id[list[k].id] = list[k]
  /\ Cardinality(DOMAIN library.behavior_from_display_name) = Len(list)
  /\ Cardinality(DOMAIN library.behavior_from_id) = Len(list)

(* C28: for every list of entries, the library built from it returns each  *)
(* entry e for e's display_name and for e's id, and both indexes hold as   *)
(* many entries as the list.                                               *)
C28_IndexedByIdAndName ==
  ser.stage = "library" => Indexed(ser.back, ser.list)

\* no two entries of the list share an id or a display name
UniqueKeys(list) ==
  \A j \in DOMAIN list, k \in DOMAIN list :
    j # k => (list[j].id # list[k].id
              /\ list[j].display_name # list[k].display_name)

\* for a list whose ids are pairwise distinct and whose display names are
\* pairwise distinct the two indexes are complete
IndexedWhenUnique ==
  (ser.stage = "library" /\ UniqueKeys(ser.list))
  => Indexed(ser.back, ser.list)

\* the entries of the list with the given value under the given key
EntriesWith(list, key, v) ==
  {list[k] : k \in {j \in DOMAIN list : list[j][key] = v}}

(* C29: get_behavior_by_id(id) returns the entry whose id is id, or None   *)
(* when no entry has it, get_behavior_by_display_name(name) the entry with *)
(* that display name or None; neither raises, and the library is as it     *)
(* was.                                                                    *)
C29_LookupReturnsEntry ==
  /\ ser.stage = "got by id" =>
       /\ ser.err = "none"
       /\ IF EntriesWith(ser.list, "id", ser.key) = {}
          THEN ser.tree = PyNone
          ELSE ser.tree \in EntriesWith(ser.list, "id", ser.key)
       /\ ser.back = BehaviorLibrary(ser.list)
  /\ ser.stage = "got by display name" =>
       /\ ser.err = "none"
       /\ IF EntriesWith(ser.list, "display_name", ser.key) = {}
          THEN ser.tree = PyNone
          ELSE ser.tree \in EntriesWith(ser.list, "display_name", ser.key)
       /\ ser.back = BehaviorLibrary(ser.list)

\* the kinds, names and nesting of a tree
RECURSIVE Shape(_)
Shape(obj) ==
  [module |-> obj.module, cls |-> obj.cls, name |-> obj.name,
   children |-> [k \in DOMAIN obj.children |-> Shape(obj.children[k])]]

(* C30: encoding a tree with PyTreesEncoder and decoding the result with   *)
(* PyTreesDecoder gives a tree with the same rendering as the original:    *)
(* the same node kinds, names, child order and nesting.                    *)
C30_JsonRoundTrip ==
  ser.stage = "loaded" =>
    /\ ser.err = "none"
    /\ IsBehaviour(ser.back)
    /\ unicode_tree(ser.back, 0) = unicode_tree(ser.tree, 0)
    /\ Shape(ser.back) = Shape(ser.tree)

\* the classes of py_trees whose constructor takes the encoded attributes
\* and nothing else
RECURSIVE PlainTree(_)
PlainTree(obj) ==
  /\ obj.cls \in {"Sequence", "Selector", "Dummy", "Success"}
  /\ \A k \in DOMAIN obj.children : PlainTree(obj.children[k])

\* for trees of these classes the round trip gives the tree again
JsonRoundTripPlain ==
  (ser.stage = "loaded" /\ PlainTree(ser.tree))
  => (ser.err = "none" /\ ser.back = ser.tree)

----------------------------------------------------------------------------
(* The protocol of the main loop.                                          *)

\* the heap after the step
After == Heap(children', parent')

\* what an entry of the protocol shows in heap s: its result, function and
\* arguments, and the tree its `tree` field refers to
Shown(entry, s) ==
  [result |-> entry.result, function |-> entry.function,
   kwargs |-> entry.kwargs,
   tree |-> [n \in Closure(s, {entry.tree}) |-> s.children[n]]]

\* the operation named by the last call, applied to heap s
Applied(s, call) ==
  CASE call.name = "remove" -> remove(s, call.node)
    [] call.name = "insert" -> insert(s, call.node, call.where)
    [] call.name = "move" -> move(s, call.node, call.where)
    [] call.name = "exchange" -> exchange(s, call.node, call.other)
    [] OTHER -> Raise(s, "QuitException")

\* the entries are tuples of the same references after every step, one more
\* per call that returned, and the step is the operation on the tree alone
LogAppendOnly ==
  [][/\ Len(protocol') = Len(protocol) + (IF op'.err = "none" THEN 1 ELSE 0)
     /\ \A i \in 1..Len(protocol) : protocol'[i] = protocol[i]
     /\ op'.err = "none" =>
          /\ protocol'[Len(protocol')].function = op'.name
          /\ protocol'[Len(protocol')].result = op'.ret
     /\ children' = Applied(Now, op').children
     /\ parent' = Applied(Now, op').parent]_vars

(* C31: the protocol of the main loop is append-only: after k completed    *)
(* mutations it holds k entries in call order, the mutation is a function  *)
(* of the tree and its arguments alone, and what an earlier entry shows    *)
(* (result, function, arguments and tree) is the same after every later    *)
(* mutation.                                                               *)
C31_LogAppendOnly ==
  [][/\ Len(protocol') = Len(protocol) + (IF op'.err = "none" THEN 1 ELSE 0)
     /\ children' = Applied(Now, op').children
     /\ parent' = Applied(Now, op').parent
     /\ \A i \in 1..Len(protocol) :
          /\ protocol'[i] = protocol[i]
          /\ Shown(protocol'[i], After) = Shown(protocol[i], Now)]_vars

\* the last call was a move or an exchange and returned
MovedOrExchanged == op.name \in {"move", "exchange"} /\ op.err = "none"

(* C32: every move or exchange of the main loop that returns without error *)
(* leaves the set of nodes reachable from the root as it was, and lists    *)
(* every node as often as before: none is lost and none is duplicated.     *)
C32_MoveExchangeKeepNodes ==
  MovedOrExchanged =>
    /\ TreeNodes(Now) = TreeNodes(Pre)
    /\ \A n \in Nodes : Occurrences(Now, n) = Occurrences(Pre, n)

\* the same for a node and a target that are not in the node's own subtree
\* (move), or two nodes neither of which is below the other (exchange)
KeepNodesWhenUnrelated ==
  (/\ MovedOrExchanged
   /\ WellFormed(Pre)
   /\ op.name = "move" =>
        op.where[1] \notin {op.node} \cup Descendants(Pre, op.node)
   /\ op.name = "exchange" =>
        /\ op.other \notin Descendants(Pre, op.node)
        /\ op.node \notin Descendants(Pre, op.other))
  => /\ TreeNodes(Now) = TreeNodes(Pre)
     /\ \A n \in Nodes : Occurrences(Now, n) = Occurrences(Pre, n)

(* C33: exchange(a, b) with a or b the root raises before any node is      *)
(* detached, whichever of the two arguments is the root: the call fails    *)
(* and every child list and parent reference is as before the call.        *)
C33_ExchangeRootFails ==
  (op.name = "exchange" /\ (op.node = Root \/ op.other = Root))
  => (op.err = "AttributeError" /\ Unchanged)

\* the root as second argument, after an earlier call has changed the tree
C33_Witness ==
  /\ op.name = "exchange" /\ op.other = Root /\ op.node # Root
  /\ op.err = "AttributeError"
  /\ children # InitChildren

\* the root as first argument
C33_WitnessFirst ==
  /\ op.name = "exchange" /\ op.node = Root /\ op.other # Root
  /\ op.err = "AttributeError"
  /\ children # InitChildren

----------------------------------------------------------------------------
(* The queries.                                                            *)

\* the last call was get_insert_mapping on the tree op.node
AskedInsertMapping == op.name = "get_insert_mapping"

\* the nodes of the tree under root t
NodesUnder(s, t) == Closure(s, {t})

\* the nodes that have no parent and are not in the tree under t
DetachedFrom(s, t) == {n \in Nodes \ NodesUnder(s, t) : s.parent[n] = None}

\* address (c, k) names a composite of the tree under t and a position of
\* its child list, and inserting a detached node there returns and leaves
\* every leaf without children
GoodAddress(s, t, addr) ==
  /\ IsComposite(addr[1])
  /\ addr[1] \in NodesUnder(s, t)
  /\ addr[2] \in 0..Len(s.children[addr[1]])
  /\ \A node \in DetachedFrom(s, t) :
       LET r == insert(s, node, addr)
       IN  /\ r.err = "none"
           /\ \A n \in Leaves : r.children[n] = <<>>

(* C34: for every tree, a tree whose root is a leaf included, every        *)
(* address (c, k) of the insertion-point mapping names a composite c of    *)
(* the tree and an index with 0 <= k <= len(c.children), so that insert of *)
(* a detached node at the address returns and gives no leaf a child.       *)
C34_InsertAddressesValid ==
  AskedInsertMapping =>
    \A label \in DOMAIN op.ret.mapping :
      GoodAddress(Now, op.node, op.ret.mapping[label])

\* the same for the trees whose root is a composite
InsertAddressesValidUnderComposite ==
  (AskedInsertMapping /\ IsComposite(op.node)) =>
    \A label \in DOMAIN op.ret.mapping :
      GoodAddress(Now, op.node, op.ret.mapping[label])

\* the value is a node, and so is every element of every children list
RECURSIVE Constructed(_)
Constructed(tree) ==
  /\ tree # PyNone
  /\ "children" \in DOMAIN tree
  /\ \A k \in DOMAIN tree.children : Constructed(tree.children[k])

\* the types of all nodes pass the type check and all names are in the
\* library
Accepted ==
  /\ \A node \in DocumentNodes(ser.doc) : node.type \in NodeTypes
  /\ MissingNames = {}

(* C35: deserialize_tree never returns without an error and without a      *)
(* node: for every document whose node types pass the type check           *)
(* (Sequence, Selector, Behavior) and whose names are in the library, a    *)
(* call that raises nothing returns a constructed node whose children      *)
(* lists hold constructed nodes only.                                      *)
C35_DeserializeYieldsNode ==
  (ser.stage = "deserialized" /\ Accepted /\ ser.err = "none")
  => Constructed(ser.tree)

\* the same for the documents without a node of type Selector
YieldsNodeWithoutSelector ==
  (/\ ser.stage = "deserialized" /\ Accepted /\ ser.err = "none"
   /\ \A node \in DocumentNodes(ser.doc) : node.type # "Selector")
  => Constructed(ser.tree)

Queries ==
  {"get_node_mapping", "get_composite_mapping", "get_child_index_mapping",
   "get_insert_mapping", "serialize_tree"}

C36_WitnessSerialize ==
  /\ op.name = "serialize_tree"
  /\ children # InitChildren
  /\ "children" \in DOMAIN op.ret
  /\ \E k \in DOMAIN op.ret.children : "children" \in DOMAIN op.ret.children[k]

----------------------------------------------------------------------------
(* behaviour_tree_library.                                                 *)

\* build_tree has returned a Sequence for the id list op.where
Built == op.name = "build_tree" /\ op.err = "none"

(* C37: the tree returned by build_tree(context, children, behaviours)     *)
(* satisfies the parent invariant: the children of the returned Sequence   *)
(* are the listed behaviours in the order of the id list, each of them     *)
(* exactly once, and the parent of each is the returned Sequence itself.   *)
C37_BuiltTreeParents ==
  Built =>
    LET ids == op.where
        tree == op.ret
    IN  /\ children[tree] = [k \in DOMAIN ids |-> behaviours[ids[k]]]
        /\ \A k \in DOMAIN ids :
             /\ Count(behaviours[ids[k]], children[tree]) = 1
             /\ parent[behaviours[ids[k]]] = tree

\* what the function does establish: the children are the listed behaviours
\* in the order of the id list, and the parent of each is the other
\* Sequence, which has no children
BuiltTreeChildren ==
  Built =>
    LET ids == op.where
        tree == op.ret
    IN  /\ children[tree] = [k \in DOMAIN ids |-> behaviours[ids[k]]]
        /\ \A k \in DOMAIN ids :
             /\ parent[behaviours[ids[k]]] = op.node
             /\ op.node # tree
             /\ children[op.node] = <<>>

\* how many times child is listed by the Sequences
Listed(child) ==
  Count(child, children[1]) + Count(child, children[2])

\* the last call was insert_child with an index outside [0, len(children)]
InsertedOutside ==
  /\ op.name = "insert_child"
  /\ ~ (0 <= op.where[2] /\ op.where[2] <= Len(pre.children[op.other]))

(* C38: after any sequence of add_child, insert_child and remove_child     *)
(* calls on Sequences, the parent of a child is S exactly when the child   *)
(* is in S.children, no child is in the children of two Sequences or twice *)
(* in one, and an insert_child with an index outside [0, len(children)]    *)
(* has changed neither the children nor the child's parent.                *)
C38_SequenceKeepsParents ==
  /\ \A child \in Behaviours, S \in Sequences :
       parent[child] = S <=> InList(child, children[S])
  /\ \A child \in Behaviours : Listed(child) <= 1
  /\ InsertedOutside => Unchanged

\* the part about insert_child alone
InsertOutsideIgnored == InsertedOutside => (op.err = "none" /\ Unchanged)

----------------------------------------------------------------------------
(* mutate_tree.format_tree_with_indices.                                   *)

FormattedTree == op.name = "format_tree_with_indices"

ShowRoot == op.where[2] = 1

\* the number of nodes of the tree that was formatted
TreeSize == Len(iterate_nodes(Now, op.node))

\* the label shown on the line of the root
RootLabel == op.ret.output[1][1]

(* C39: format_tree_with_indices(tree, show_root) offers the labels        *)
(* 1..N-1 for selection and marks the root as not selectable when          *)
(* show_root is false, and offers the labels 0..N-1, the root's label 0    *)
(* included, when show_root is true.                                       *)
C39_TreeIndicesOffered ==
  FormattedTree =>
    IF ShowRoot
    THEN /\ Range(op.ret.options) = 0..(TreeSize - 1)
         /\ RootLabel = 0
    ELSE /\ Range(op.ret.options) = 1..(TreeSize - 1)
         /\ RootLabel = skip_label

\* what is offered whatever show_root is: the labels 1..N-1 in order; the
\* root's line shows 0 or the skip label
TreeIndicesWithoutRoot ==
  FormattedTree =>
    /\ op.ret.options = [k \in 1..(TreeSize - 1) |-> k]
    /\ RootLabel = (IF ShowRoot THEN 0 ELSE skip_label)

====
